---- MODULE Spec2Model ----
(***************************************************************************)
(* Model of helper_functions/crawler.py: CustomCrawler.__init__.           *)
(*                                                                         *)
(* The constructor is modelled statement by statement (pc is its position) *)
(* so that the order of the environment probes, the in-place appends to    *)
(* the webdriver_options list, the start of the Chrome session and the     *)
(* assignment of the instance attributes are all visible.                  *)
(*                                                                         *)
(* Python values that the constructor only copies (the ten crawl           *)
(* parameters) are represented by their repr() as opaque strings.          *)
(* Lists of launch options are sequences of strings; a list object lives   *)
(* in `heap` and a Python variable holding it is a reference into `heap`,  *)
(* so that aliasing between the caller's list and the local name           *)
(* webdriver_options is modelled.                                          *)
(***************************************************************************)
EXTENDS Integers, Sequences, FiniteSets, TLC

\* ---------------------------------------------------------------- bounds
\* longest launch-option list the caller owns before the first construction
MaxLen == 2
\* number of constructor calls in one run of the process
MaxConstructions == 2

\* ------------------------------------------------------------ flag names
HEADLESS == "--headless"
DISABLE_GPU == "--disable-gpu"
DISABLE_DEV_SHM == "--disable-dev-shm-usage"
SINGLE_PROCESS == "--single-process"
NO_SANDBOX == "--no-sandbox"
REMOTE_DEBUGGING_PORT == "--remote-debugging-port=9222"

\* flags a caller puts in the list it passes as webdriver_options
CallerFlags == {HEADLESS, REMOTE_DEBUGGING_PORT, "--window-size=800,600"}

\* all lists of length <= n over S
RECURSIVE SeqsUpTo(_, _)
SeqsUpTo(S, n) ==
    IF n = 0 THEN {<< >>}
    ELSE LET shorter == SeqsUpTo(S, n - 1)
         IN  shorter \cup {Append(s, x) : s \in {t \in shorter : Len(t) = n - 1}, x \in S}

CallerLists == SeqsUpTo(CallerFlags, MaxLen)

\* ----------------------------------------------------- the environment
\* what the four probes of lines 87-90 read
WindowsPlatforms == {"win32", "cygwin"}
Platforms == {"linux"} \cup WindowsPlatforms
AzureValues == {"None", "True", "true"}
Euids == {0, 1000}
Environments ==
    [colabLoaded : BOOLEAN, azureVar : AzureValues, platform : Platforms, euid : Euids]

\* -------------------------------------------------- the crawl parameters
ParamNames ==
    {"urls", "crawler_depth", "filter_urls", "id_hash_keys", "extract_hidden_text",
     "loading_wait_time", "output_dir", "overwrite_existing_files",
     "file_path_meta_field_name", "crawler_naming_function"}

\* the defaults of the signature
Defaults ==
    [urls |-> "None", crawler_depth |-> "1", filter_urls |-> "None",
     id_hash_keys |-> "None", extract_hidden_text |-> "True",
     loading_wait_time |-> "None", output_dir |-> "None",
     overwrite_existing_files |-> "True", file_path_meta_field_name |-> "None",
     crawler_naming_function |-> "None"]

\* a value a caller passes instead of the default (crawler_depth: out of range)
Overrides ==
    [urls |-> "['https://a.example']", crawler_depth |-> "-1",
     filter_urls |-> "['a\\.example']", id_hash_keys |-> "['content', 'meta']",
     extract_hidden_text |-> "False", loading_wait_time |-> "2",
     output_dir |-> "'out'", overwrite_existing_files |-> "False",
     file_path_meta_field_name |-> "'file_path'",
     crawler_naming_function |-> "<function name_page>"]

\* the calls: every parameter at its default, or one parameter overridden
ArgProfiles ==
    {Defaults} \cup {[Defaults EXCEPT ![p] = Overrides[p]] : p \in ParamNames}

\* no attribute of the instance assigned yet
NoAttributes == [p \in ParamNames |-> "unset"]

\* ---------------------------------------------------------------- state
VARIABLES
    env,                \* the process environment the probes read
    heap,               \* list objects: heap.caller (owned by the caller), heap.fresh (line 93)
    pc,                 \* position in __init__
    constructions,      \* constructor calls made so far
    args,               \* the ten crawl parameters of the current call
    entry,              \* the webdriver_options argument as it was at entry
    webdriver_options,  \* the local name: "None", or a reference into heap
    IN_COLAB, IN_AZUREML, IN_WINDOWS, IS_ROOT,
    geteuidCalls,       \* calls of os.geteuid() in the current construction
    arguments,          \* Options()._arguments after the add_argument loop
    driverStarts,       \* calls of webdriver.Chrome in the current construction
    driver,             \* self.driver
    self,               \* the ten crawl attributes of the instance
    raised              \* exception that left the constructor

vars ==
    <<env, heap, pc, constructions, args, entry, webdriver_options,
      IN_COLAB, IN_AZUREML, IN_WINDOWS, IS_ROOT, geteuidCalls,
      arguments, driverStarts, driver, self, raised>>

signals == <<IN_COLAB, IN_AZUREML, IN_WINDOWS, IS_ROOT>>
session == <<arguments, driverStarts, driver, self, raised>>

Init ==
    /\ env \in Environments
    /\ heap \in [caller : CallerLists, fresh : {<< >>}]
    /\ pc = "idle"
    /\ constructions = 0
    /\ args = Defaults
    /\ entry = [supplied |-> FALSE, list |-> << >>]
    /\ webdriver_options = "None"
    /\ IN_COLAB = FALSE /\ IN_AZUREML = FALSE /\ IN_WINDOWS = FALSE /\ IS_ROOT = FALSE
    /\ geteuidCalls = 0
    /\ arguments = {}
    /\ driverStarts = 0
    /\ driver = "unset"
    /\ self = NoAttributes
    /\ raised = "none"

\* ------------------------------------------------------ pure helpers
\* set(webdriver_options)
SetOf(s) == {s[i] : i \in DOMAIN s}

\* line 93 as the docstring's example 1 has it
DefaultOptionsOfDocstring == <<DISABLE_GPU, NO_SANDBOX, DISABLE_DEV_SHM, SINGLE_PROCESS>>

\* line 93
DefaultOptions == <<HEADLESS, DISABLE_GPU, DISABLE_DEV_SHM, SINGLE_PROCESS>>

\* line 89
IsWindows(platform) == platform \in WindowsPlatforms

\* line 88
IsAzureML(value) == value = "True"

\* line 95 with the condition always taken
NeedsNoSandboxAlways(root, windows, colab) == TRUE

\* line 95
NeedsNoSandbox(root, windows, colab) == root \/ windows \/ colab

\* line 97 with IS_ROOT forgotten
NeedsDebuggingPortWindowsOnly(root, windows) == windows

\* line 97 with the condition of line 95
NeedsDebuggingPortLikeSandbox(root, windows) == root \/ windows \/ IN_COLAB

\* line 97
NeedsDebuggingPort(root, windows) == root \/ windows

\* line 99 with the condition always taken
NeedsDevShmAlways(colab, azureml) == TRUE

\* line 99
NeedsDevShm(colab, azureml) == colab \/ azureml

\* webdriver_options.append(flag): in place, on the object the name refers to
AppendTo(ref, flag) == [heap EXCEPT ![ref] = Append(@, flag)]

\* ---------------------------------------------------------- the actions
\* the caller evaluates CustomCrawler(..., webdriver_options=<its list> or nothing)
Call(a, passList) ==
    /\ pc \in {"idle", "done", "failed"}
    /\ constructions < MaxConstructions
    /\ constructions' = constructions + 1
    /\ args' = a
    /\ entry' = [supplied |-> passList,
                 list |-> IF passList THEN heap.caller ELSE << >>]
    /\ webdriver_options' = IF passList THEN "caller" ELSE "None"
    /\ heap' = [heap EXCEPT !.fresh = << >>]
    /\ IN_COLAB' = FALSE /\ IN_AZUREML' = FALSE /\ IN_WINDOWS' = FALSE /\ IS_ROOT' = FALSE
    /\ geteuidCalls' = 0
    /\ arguments' = {}
    /\ driverStarts' = 0
    /\ driver' = "unset"
    /\ self' = NoAttributes
    /\ raised' = "none"
    /\ pc' = "colab"
    /\ UNCHANGED env

\* line 87
DetectColab ==
    /\ pc = "colab"
    /\ IN_COLAB' = env.colabLoaded
    /\ pc' = "azureml"
    /\ UNCHANGED <<env, heap, constructions, args, entry, webdriver_options,
                   IN_AZUREML, IN_WINDOWS, IS_ROOT, geteuidCalls, session>>

\* line 88
DetectAzureML ==
    /\ pc = "azureml"
    /\ IN_AZUREML' = IsAzureML(env.azureVar)
    /\ pc' = "windows"
    /\ UNCHANGED <<env, heap, constructions, args, entry, webdriver_options,
                   IN_COLAB, IN_WINDOWS, IS_ROOT, geteuidCalls, session>>

\* line 89
DetectWindows ==
    /\ pc = "windows"
    /\ IN_WINDOWS' = IsWindows(env.platform)
    /\ pc' = "root"
    /\ UNCHANGED <<env, heap, constructions, args, entry, webdriver_options,
                   IN_COLAB, IN_AZUREML, IS_ROOT, geteuidCalls, session>>

\* line 90 with the operands of `and` exchanged: os.geteuid() is called first
DetectRootLooksUpFirst ==
    /\ pc = "root"
    /\ geteuidCalls' = geteuidCalls + 1
    /\ IS_ROOT' = (env.euid = 0 /\ ~IN_WINDOWS)
    /\ pc' = "default"
    /\ UNCHANGED <<env, heap, constructions, args, entry, webdriver_options,
                   IN_COLAB, IN_AZUREML, IN_WINDOWS, session>>

\* line 90: `not IN_WINDOWS and os.geteuid() == 0`, `and` short-circuits
DetectRoot ==
    /\ pc = "root"
    /\ IF ~IN_WINDOWS
       THEN /\ geteuidCalls' = geteuidCalls + 1
            /\ IS_ROOT' = (env.euid = 0)
       ELSE /\ geteuidCalls' = geteuidCalls
            /\ IS_ROOT' = FALSE
    /\ pc' = "default"
    /\ UNCHANGED <<env, heap, constructions, args, entry, webdriver_options,
                   IN_COLAB, IN_AZUREML, IN_WINDOWS, session>>

\* lines 92-93: a new list object is bound to the local name
AssignDefaultOptions ==
    /\ pc = "default"
    /\ IF webdriver_options = "None"
       THEN /\ heap' = [heap EXCEPT !.fresh = DefaultOptions]
            /\ webdriver_options' = "fresh"
       ELSE UNCHANGED <<heap, webdriver_options>>
    /\ pc' = "headless"
    /\ UNCHANGED <<env, constructions, args, entry, signals, geteuidCalls, session>>

\* line 94 indented under the `if` of line 92
AppendHeadlessOnlyToDefault ==
    /\ pc = "headless"
    /\ heap' = IF webdriver_options = "fresh"
               THEN AppendTo(webdriver_options, HEADLESS) ELSE heap
    /\ pc' = "nosandbox"
    /\ UNCHANGED <<env, constructions, args, entry, webdriver_options, signals,
                   geteuidCalls, session>>

\* line 94
AppendHeadless ==
    /\ pc = "headless"
    /\ heap' = AppendTo(webdriver_options, HEADLESS)
    /\ pc' = "nosandbox"
    /\ UNCHANGED <<env, constructions, args, entry, webdriver_options, signals,
                   geteuidCalls, session>>

\* lines 95-96
AppendNoSandbox ==
    /\ pc = "nosandbox"
    /\ heap' = IF NeedsNoSandbox(IS_ROOT, IN_WINDOWS, IN_COLAB)
               THEN AppendTo(webdriver_options, NO_SANDBOX) ELSE heap
    /\ pc' = "debugport"
    /\ UNCHANGED <<env, constructions, args, entry, webdriver_options, signals,
                   geteuidCalls, session>>

\* lines 97-98
AppendDebuggingPort ==
    /\ pc = "debugport"
    /\ heap' = IF NeedsDebuggingPort(IS_ROOT, IN_WINDOWS)
               THEN AppendTo(webdriver_options, REMOTE_DEBUGGING_PORT) ELSE heap
    /\ pc' = "devshm"
    /\ UNCHANGED <<env, constructions, args, entry, webdriver_options, signals,
                   geteuidCalls, session>>

\* lines 99-100
AppendDevShm ==
    /\ pc = "devshm"
    /\ heap' = IF NeedsDevShm(IN_COLAB, IN_AZUREML)
               THEN AppendTo(webdriver_options, DISABLE_DEV_SHM) ELSE heap
    /\ pc' = "register"
    /\ UNCHANGED <<env, constructions, args, entry, webdriver_options, signals,
                   geteuidCalls, session>>

\* lines 102-104: Options(), then add_argument for each element of the set
RegisterOptions ==
    /\ pc = "register"
    /\ arguments' = SetOf(heap[webdriver_options])
    /\ pc' = "start"
    /\ UNCHANGED <<env, heap, constructions, args, entry, webdriver_options, signals,
                   geteuidCalls, driverStarts, driver, self, raised>>

\* line 106, webdriver.Chrome returns a session
StartDriverSucceeds ==
    /\ pc = "start"
    /\ driverStarts' = driverStarts + 1
    /\ driver' = "session"
    /\ pc' = "store"
    /\ UNCHANGED <<env, heap, constructions, args, entry, webdriver_options, signals,
                   geteuidCalls, arguments, self, raised>>

\* line 106 wrapped in a try/except that carries on to line 107
StartDriverFailureSwallowed ==
    /\ pc = "start"
    /\ driverStarts' = driverStarts + 1
    /\ driver' = "None"
    /\ pc' = "store"
    /\ UNCHANGED <<env, heap, constructions, args, entry, webdriver_options, signals,
                   geteuidCalls, arguments, self, raised>>

\* line 106, webdriver.Chrome raises: nothing catches it, __init__ is left
StartDriverFails ==
    /\ pc = "start"
    /\ driverStarts' = driverStarts + 1
    /\ raised' = "WebDriverException"
    /\ pc' = "failed"
    /\ UNCHANGED <<env, heap, constructions, args, entry, webdriver_options, signals,
                   geteuidCalls, arguments, driver, self>>

\* lines 107-116 with the right-hand sides of lines 110 and 112 exchanged
StoreFieldsSwapped ==
    /\ pc = "store"
    /\ self' = [NoAttributes EXCEPT
                  !["urls"] = args["urls"],
                  !["crawler_depth"] = args["crawler_depth"],
                  !["filter_urls"] = args["filter_urls"],
                  !["overwrite_existing_files"] = args["extract_hidden_text"],
                  !["id_hash_keys"] = args["id_hash_keys"],
                  !["extract_hidden_text"] = args["overwrite_existing_files"],
                  !["loading_wait_time"] = args["loading_wait_time"],
                  !["crawler_naming_function"] = args["crawler_naming_function"],
                  !["output_dir"] = args["output_dir"],
                  !["file_path_meta_field_name"] = args["file_path_meta_field_name"]]
    /\ pc' = "done"
    /\ UNCHANGED <<env, heap, constructions, args, entry, webdriver_options, signals,
                   geteuidCalls, arguments, driverStarts, driver, raised>>

\* lines 107-116
StoreFields ==
    /\ pc = "store"
    /\ self' = [NoAttributes EXCEPT
                  !["urls"] = args["urls"],
                  !["crawler_depth"] = args["crawler_depth"],
                  !["filter_urls"] = args["filter_urls"],
                  !["overwrite_existing_files"] = args["overwrite_existing_files"],
                  !["id_hash_keys"] = args["id_hash_keys"],
                  !["extract_hidden_text"] = args["extract_hidden_text"],
                  !["loading_wait_time"] = args["loading_wait_time"],
                  !["crawler_naming_function"] = args["crawler_naming_function"],
                  !["output_dir"] = args["output_dir"],
                  !["file_path_meta_field_name"] = args["file_path_meta_field_name"]]
    /\ pc' = "done"
    /\ UNCHANGED <<env, heap, constructions, args, entry, webdriver_options, signals,
                   geteuidCalls, arguments, driverStarts, driver, raised>>

Next ==
    \/ \E a \in ArgProfiles, passList \in BOOLEAN : Call(a, passList)
    \/ DetectColab
    \/ DetectAzureML
    \/ DetectWindows
    \/ DetectRoot
    \/ AssignDefaultOptions
    \/ AppendHeadless
    \/ AppendNoSandbox
    \/ AppendDebuggingPort
    \/ AppendDevShm
    \/ RegisterOptions
    \/ StartDriverSucceeds
    \/ StartDriverFails
    \/ StoreFields

Spec == Init /\ [][Next]_vars

\* ------------------------------------------------------- claim vocabulary
\* the option set has been registered with the browser session's Options
Registered == pc \in {"start", "store", "done", "failed"}

\* the four default flags, as the specification lists them
FourDefaultFlags ==
    {"--headless", "--disable-gpu", "--disable-dev-shm-usage", "--single-process"}

\* the base set: the caller's list as it was at entry, else the four defaults
BaseSet == IF entry.supplied THEN SetOf(entry.list) ELSE FourDefaultFlags

\* what the constructor added to the base set
Added == arguments \ BaseSet

\* a signal that adds --no-sandbox is true
NoSandboxSignal == IS_ROOT \/ IN_WINDOWS \/ IN_COLAB

\* ------------------------------------------------------------------- C1
\* C1: for every caller-supplied list (empty, without --headless, with
\* --headless) and every combination of the environment signals, the
\* deduplicated option set registered with the session contains --headless.
C1_HeadlessAlwaysRegistered ==
    Registered => "--headless" \in arguments

\* a caller's list without --headless was registered with --headless
C1_Witness ==
    /\ Registered
    /\ entry.supplied
    /\ "--headless" \notin SetOf(entry.list)
    /\ "--headless" \in arguments

C3_RootGetsNoSandboxAndPort ==
    (Registered /\ IS_ROOT /\ ~IN_WINDOWS) =>
        /\ "--no-sandbox" \in arguments
        /\ "--remote-debugging-port=9222" \in arguments

\* superuser on a non-Windows platform, caller's list without the port flag
C3_Witness ==
    /\ Registered
    /\ IS_ROOT /\ ~IN_WINDOWS
    /\ entry.supplied
    /\ "--remote-debugging-port=9222" \notin SetOf(entry.list)
    /\ "--remote-debugging-port=9222" \in arguments
    /\ "--no-sandbox" \in arguments

\* ------------------------------------------------------------------- C4
\* C4 as stated: notebook/cloud true, superuser and Windows false: the final
\* set contains --no-sandbox and --disable-dev-shm-usage and does not
\* contain --remote-debugging-port=9222.
C4_Original ==
    (Registered /\ IN_COLAB /\ ~IS_ROOT /\ ~IN_WINDOWS) =>
        /\ "--no-sandbox" \in arguments
        /\ "--disable-dev-shm-usage" \in arguments
        /\ "--remote-debugging-port=9222" \notin arguments

\* C4 amended: notebook/cloud true, superuser and Windows false: the final
\* set contains --no-sandbox and --disable-dev-shm-usage, and contains
\* --remote-debugging-port=9222 only if the list passed by the caller
\* already contained it when the constructor was entered.
C4_ColabPortOnlyFromCaller ==
    (Registered /\ IN_COLAB /\ ~IS_ROOT /\ ~IN_WINDOWS) =>
        /\ "--no-sandbox" \in arguments
        /\ "--disable-dev-shm-usage" \in arguments
        /\ ("--remote-debugging-port=9222" \in arguments
              => (entry.supplied /\ "--remote-debugging-port=9222" \in SetOf(entry.list)))

\* notebook/cloud only, caller's list without the flags: two added, no port
C4_Witness ==
    /\ Registered
    /\ IN_COLAB /\ ~IS_ROOT /\ ~IN_WINDOWS
    /\ entry.supplied
    /\ "--no-sandbox" \in arguments
    /\ "--disable-dev-shm-usage" \in arguments
    /\ "--remote-debugging-port=9222" \notin arguments

\* ------------------------------------------------------------------- C5
\* C5: all four signals false: the final set equals the base set (caller's
\* list if given, else the four defaults) united with {--headless}; no
\* conditional flag is added.
C5_NoSignalsOnlyHeadlessAdded ==
    (Registered /\ ~IN_COLAB /\ ~IN_AZUREML /\ ~IN_WINDOWS /\ ~IS_ROOT) =>
        arguments = BaseSet \cup {"--headless"}

\* no signal, a caller's list with only a flag of its own
C5_Witness ==
    /\ Registered
    /\ ~IN_COLAB /\ ~IN_AZUREML /\ ~IN_WINDOWS /\ ~IS_ROOT
    /\ entry.supplied
    /\ entry.list = <<"--window-size=800,600">>
    /\ arguments = {"--window-size=800,600", "--headless"}

\* ------------------------------------------------------------------- C6
\* C6: if starting the session fails, the failure leaves the constructor
\* after exactly one start attempt, with no crawl attribute and no session
\* handle stored; and an attribute is stored only after a successful start.
C6_FailureLeavesNothingStored ==
    /\ (pc = "failed" =>
          /\ raised = "WebDriverException"
          /\ driverStarts = 1
          /\ driver = "unset"
          /\ self = NoAttributes)
    /\ (self # NoAttributes => (driver = "session" /\ driverStarts = 1))
    /\ (raised = "none" <=> pc # "failed")

\* the start failed and the exception reached the caller
C6_Witness ==
    /\ pc = "failed"
    /\ raised = "WebDriverException"
    /\ driverStarts = 1
    /\ self = NoAttributes

\* ------------------------------------------------------------------- C7
\* C7: after a successful construction each of the ten crawl attributes
\* equals the value passed for that parameter (or its default), unvalidated,
\* including a negative depth.
C7_FieldsStoredUnchanged ==
    pc = "done" =>
        /\ \A p \in ParamNames : self[p] = args[p]
        /\ driver = "session"

\* a negative depth was stored as passed, the two flags at their defaults
C7_Witness ==
    /\ pc = "done"
    /\ args["crawler_depth"] = "-1"
    /\ self["crawler_depth"] = "-1"
    /\ self["extract_hidden_text"] = "True"
    /\ self["overwrite_existing_files"] = "True"

\* ------------------------------------------------------------------- C8
\* C8: on a Windows-family platform (win32, cygwin) the effective-user-id
\* lookup is never performed and the superuser signal is false; the lookup
\* happens only after the Windows signal has been computed as false.
C8_NoLookupOnWindows ==
    /\ (env.platform \in {"win32", "cygwin"} => (geteuidCalls = 0 /\ ~IS_ROOT))
    /\ (geteuidCalls > 0 =>
          /\ pc \notin {"idle", "colab", "azureml", "windows", "root"}
          /\ ~IN_WINDOWS
          /\ geteuidCalls = 1)

\* cygwin, euid 0 in the environment, line 90 passed without a lookup
C8_Witness ==
    /\ env.platform = "cygwin"
    /\ env.euid = 0
    /\ pc = "default"
    /\ IN_WINDOWS
    /\ geteuidCalls = 0
    /\ ~IS_ROOT

\* ------------------------------------------------------------------- C9
\* C9: option assembly is additive only: the final set contains the base
\* set, every other flag in it is one of --headless, --no-sandbox,
\* --remote-debugging-port=9222, --disable-dev-shm-usage, and each of the
\* three conditional flags is added only when its rule holds.
C9_AdditiveOnly ==
    Registered =>
        /\ BaseSet \subseteq arguments
        /\ Added \subseteq {"--headless", "--no-sandbox",
                            "--remote-debugging-port=9222", "--disable-dev-shm-usage"}
        /\ ("--no-sandbox" \in Added => (IS_ROOT \/ IN_WINDOWS \/ IN_COLAB))
        /\ ("--remote-debugging-port=9222" \in Added => (IS_ROOT \/ IN_WINDOWS))
        /\ ("--disable-dev-shm-usage" \in Added => (IN_COLAB \/ IN_AZUREML))

\* all three conditional flags added to a caller's list that it keeps whole
C9_Witness ==
    /\ Registered
    /\ entry.supplied
    /\ Len(entry.list) = 2
    /\ SetOf(entry.list) \subseteq arguments
    /\ Added = {"--no-sandbox", "--remote-debugging-port=9222", "--disable-dev-shm-usage"}

\* ------------------------------------------------------------------ C10
\* C10: construction modifies no caller-owned input: the launch-option list
\* the caller passed holds the same elements after construction as at entry.
C10_CallerListUntouched ==
    (entry.supplied /\ pc \in {"done", "failed"}) => heap.caller = entry.list

====
